---- MODULE Spec2Model ----
(***************************************************************************)
(* A model of cursed: the window registry filled by the metaclass          *)
(* CursedWindowClass (cursed/meta.py), the Result type and the CursedApp   *)
(* controller with its input-dispatch loop (cursed/app.py).                *)
(*                                                                         *)
(* One OS thread runs everything.  The host program and run() are the main *)
(* greenlet; every window task and the input loop are greenlets that only  *)
(* run while the main greenlet is blocked in gevent.joinall, and that run  *)
(* without interruption from one yield point to the next.                  *)
(***************************************************************************)
EXTENDS Integers, Sequences, FiniteSets, TLC

\* Bounds of the model.
MaxDecls == 2
MaxRuns == 2
MaxReads == 2

VARIABLES
    classes,      \* every class object created through the metaclass, by creation order
    queues,       \* every Queue object created by the metaclass, by creation order
    WINDOWS,      \* CursedWindowClass.WINDOWS: the registry, a list of class objects
    scr,          \* self.scr
    window,       \* self.window
    threads,      \* self.threads: the task handles (gevent greenlets)
    windows,      \* self.windows
    running,      \* self.running
    result,       \* the Result of the current or latest run()
    pc,           \* where the main greenlet is
    exc_info,     \* sys.exc_info() of the main greenlet: the exception in flight
    term,         \* the terminal, as curses leaves it
    runs,         \* how many times run() was entered
    getch_log,    \* the key codes getch() has returned (not the -1 sentinel)
    raised,       \* what the host's latest unwrap() did
    captured      \* the exc_info triples written into the Result, in order

vars == <<classes, queues, WINDOWS, scr, window, threads, windows, running,
          result, pc, exc_info, term, runs, getch_log, raised, captured>>

(***************************************************************************)
(* Python values.                                                          *)
(***************************************************************************)
None == "None"

\* An exception object: its class name and str(exc).
Exc(kind, msg) == [kind |-> kind, msg |-> msg]

\* None where an exception object is expected.
NoExc == Exc("NoneType", "None")

\* A traceback: the function that raised, the call it raised in and, for a
\* greenlet, the class object whose task it is.
Tb(func, site, cw) == [func |-> func, site |-> site, cw |-> cw]

\* None where a traceback is expected.
NoTb == Tb(None, None, 0)

\* (None, None, None): sys.exc_info() with nothing in flight, and the
\* exc_info of a greenlet that did not fail.
NoExcInfo == [type |-> None, value |-> NoExc, tb |-> NoTb]

\* The triple (type, value, traceback) of exception e raised with
\* traceback tb.
ExcInfoOf(e, tb) == [type |-> e.kind, value |-> e, tb |-> tb]

\* bool(x) of None or an exception object: None is false, an object is true.
bool(x) == x # NoExc

\* issubclass(kind, Exception): KeyboardInterrupt and SystemExit derive from
\* BaseException only.
IsException(kind) == kind \in {"error", "ValueError"}

\* Key codes the terminal delivers; getch() returns -1 when none is pending.
KeyCodes == {97, 98}
ERR == -1

(***************************************************************************)
(* cursed/meta.py: the metaclass.                                          *)
(***************************************************************************)
BASE_CURSED_CLASSES == {"CursedWindowClass", "CursedWindow", "CursedMenu"}

\* Names a host program declares classes under.
ClassNames == BASE_CURSED_CLASSES \cup {"MainWindow"}

\* A class body with no attribute, and one that overrides every attribute
\* the metaclass reads.
EmptyDct == [a \in {} |-> None]
FullDct ==
    [WIDTH |-> 40, HEIGHT |-> 10, X |-> 5, Y |-> 3, BORDERED |-> TRUE,
     SCROLL |-> TRUE, WAIT |-> FALSE, MENU |-> "MainMenu"]
WaitDct == [WAIT |-> TRUE, WIDTH |-> 80]
Dcts == <<EmptyDct, FullDct, WaitDct>>

\* dct.get(key, default)
dct_get(dct, key, default) == IF key \in DOMAIN dct THEN dct[key] ELSE default

\* Queue(): a new, empty, unbounded FIFO queue, kept as every item put so
\* far and the number of them already taken.  A class attribute holds a
\* reference to a Queue object: its position in `queues`.
Queue == [items |-> <<>>, taken |-> 0]

\* Queue.put(c) and Queue.get() (the queue after it).
Queue_put(q, c) == [q EXCEPT !.items = Append(@, c)]
Queue_get(q) == [q EXCEPT !.taken = @ + 1]

\* Queue.empty()
Queue_empty(q) == q.taken = Len(q.items)

\* A queue built with maxsize=1.
Queue_full_maxsize_one(q) == Len(q.items) - q.taken >= 1

\* Queue.full(): Queue() is built without a maxsize, so a put never has to
\* wait for room.
Queue_full(q) == FALSE

\* Defaults that hand every class the same three Queue objects.
injected_attrs_shared_queues(dct, n) ==
    [WIDTH |-> dct_get(dct, "WIDTH", 80),
     HEIGHT |-> dct_get(dct, "HEIGHT", 24),
     WINDOW |-> None,
     APP |-> None,
     X |-> dct_get(dct, "X", 0),
     Y |-> dct_get(dct, "Y", 0),
     BORDERED |-> dct_get(dct, "BORDERED", FALSE),
     EVENTS |-> 1,
     RESULTS |-> 2,
     KEY_EVENTS |-> 3,
     SCROLL |-> dct_get(dct, "SCROLL", FALSE),
     WAIT |-> dct_get(dct, "WAIT", TRUE),
     MENU |-> dct_get(dct, "MENU", None),
     _KEYMAP |-> EmptyDct,
     _OPENED_MENU |-> None]

\* The attributes __new__ sets on a class that is not a base class
\* (lines 27-41), over those of the class body; n Queue objects exist
\* before the three calls of Queue().
injected_attrs(dct, n) ==
    [WIDTH |-> dct_get(dct, "WIDTH", 80),
     HEIGHT |-> dct_get(dct, "HEIGHT", 24),
     WINDOW |-> None,
     APP |-> None,
     X |-> dct_get(dct, "X", 0),
     Y |-> dct_get(dct, "Y", 0),
     BORDERED |-> dct_get(dct, "BORDERED", FALSE),
     EVENTS |-> n + 1,
     RESULTS |-> n + 2,
     KEY_EVENTS |-> n + 3,
     SCROLL |-> dct_get(dct, "SCROLL", FALSE),
     WAIT |-> dct_get(dct, "WAIT", TRUE),
     MENU |-> dct_get(dct, "MENU", None),
     _KEYMAP |-> EmptyDct,
     _OPENED_MENU |-> None]

\* The Queue objects after a class was created under `name` (lines 34-36).
queues_after(qs, name) ==
    IF name \in BASE_CURSED_CLASSES THEN qs ELSE qs \o <<Queue, Queue, Queue>>

\* The attributes __new__ fills in with dct.get(key, default).
ConfigFields ==
    {"WIDTH", "HEIGHT", "X", "Y", "BORDERED", "SCROLL", "WAIT", "MENU"}

\* A metaclass that leaves a field the class body does not give to
\* inheritance from the parent class.
new_class_inheriting(name, parent, dct, n) ==
    [name |-> name,
     parent |-> parent,
     attrs |-> IF name \in BASE_CURSED_CLASSES THEN dct
               ELSE dct
                    @@ (IF parent = 0 THEN EmptyDct
                        ELSE [k \in ConfigFields \cap DOMAIN classes[parent].attrs
                                |-> classes[parent].attrs[k]])
                    @@ injected_attrs(dct, n)]

\* The class object type.__new__ builds and __new__ then fills in.
new_class(name, parent, dct, n) ==
    [name |-> name,
     parent |-> parent,
     attrs |-> IF name \in BASE_CURSED_CLASSES THEN dct
               ELSE injected_attrs(dct, n) @@ dct]

\* A metaclass that registers the base classes as well.
registry_after_unfiltered(registry, name, new) == registry \o <<new>>

\* The registry after the class object with index `new` was created under
\* `name` (lines 25-26 and 42).
registry_after(registry, name, new) ==
    IF name \in BASE_CURSED_CLASSES THEN registry ELSE registry \o <<new>>

(***************************************************************************)
(* cursed/app.py: Result.                                                  *)
(***************************************************************************)
Result_init == [exc_type |-> None, exc |-> NoExc, tb |-> NoTb]

\* A capture that forgets the exception object.
extract_exception_type_only(self, info) ==
    [exc_type |-> info.type, exc |-> self.exc, tb |-> info.tb]

extract_exception(self, info) ==
    [exc_type |-> info.type, exc |-> info.value, tb |-> info.tb]

extract_thread_exception(self, thread) ==
    [exc_type |-> thread.exc_info.type, exc |-> thread.exc_info.value,
     tb |-> thread.exc_info.tb]

\* six.reraise(tp, value, tb): the exception in flight after it.
reraise(tp, value, tb) ==
    LET v == IF value = NoExc THEN Exc(tp, "") ELSE value
    IN  [type |-> v.kind, value |-> v, tb |-> tb]

\* An unwrap() that hands the exception over and empties the Result.
unwrap_consuming(self) ==
    [self |-> IF bool(self.exc) THEN Result_init ELSE self,
     raises |-> IF bool(self.exc) THEN reraise(self.exc_type, self.exc, self.tb)
                ELSE NoExcInfo]

\* unwrap(): the object afterwards, and the exception it raises (NoExcInfo
\* when it returns normally).
unwrap(self) ==
    [self |-> self,
     raises |-> IF bool(self.exc) THEN reraise(self.exc_type, self.exc, self.tb)
                ELSE NoExcInfo]

ok(self) == ~bool(self.exc)

err(self) == IF bool(self.exc) THEN self.exc ELSE NoExc

interrupted(self) == self.exc_type = "KeyboardInterrupt"

\* __repr__: the text, as the pieces the format string joins.
repr(self) ==
    IF self.exc_type = None THEN <<"Result(OKAY)">>
    ELSE IF interrupted(self) THEN <<"Result(KeyboardInterrupt)">>
    ELSE <<"Result(", self.exc_type, ", message=", self.exc.msg, ")">>

(***************************************************************************)
(* gevent: task handles.                                                   *)
(***************************************************************************)
\* gevent.spawn(target, ...): a greenlet that has not run yet.  `cw` is the
\* class object whose _cw_run it runs (0 for the input loop); `branch` is
\* the way its latest pass through the scan of _input_loop went.
Greenlet(target, cw) ==
    [target |-> target, cw |-> cw, state |-> "spawned",
     exc_info |-> NoExcInfo, branch |-> "none"]

\* thread.exception: None unless the greenlet ended with an error.
exception(thread) == thread.exc_info.value

dead(thread) == thread.state = "dead"

\* The greenlet after it ended with exception e.
failed_with(thread, e) ==
    [thread EXCEPT !.state = "dead",
                   !.exc_info = ExcInfoOf(e, Tb(thread.target, "", thread.cw))]

\* A greenlet is between two yield points: nothing else runs meanwhile.
MidRun(t) == threads[t].state = "resumed"
OthersYielded(t) == \A u \in DOMAIN threads : u # t => ~MidRun(u)
AllYielded == \A u \in DOMAIN threads : ~MidRun(u)

(***************************************************************************)
(* Class attributes.                                                       *)
(***************************************************************************)
RECURSIVE hasattr(_, _)
hasattr(c, a) ==
    IF c = 0 THEN FALSE
    ELSE IF a \in DOMAIN classes[c].attrs THEN TRUE
    ELSE hasattr(classes[c].parent, a)

RECURSIVE getattr(_, _)
getattr(c, a) ==
    IF a \in DOMAIN classes[c].attrs THEN classes[c].attrs[a]
    ELSE getattr(classes[c].parent, a)

\* setattr(c, a, v) on the class objects cs.
setattr(cs, c, a, v) == [cs EXCEPT ![c].attrs = (a :> v) @@ @]

(***************************************************************************)
(* cursed/app.py: CursedApp.                                               *)
(***************************************************************************)
\* self.windows = CursedWindowClass.WINDOWS binds the registry itself, not
\* a copy of it.
NoWindows == [ref |-> None, list |-> <<>>]
bind_windows(registry) == [ref |-> "CursedWindowClass.WINDOWS", list |-> <<>>]

\* The list self.windows denotes now.
the_windows ==
    IF windows.ref = "CursedWindowClass.WINDOWS" THEN WINDOWS ELSE windows.list

\* A loop whose test fails whatever the flag is.
while_test_never(flag) == FALSE

\* A loop that goes on whatever the flag is.
while_test_always(flag) == TRUE

\* Line 118: the test of `while self.running`.
while_test(flag) == flag

\* A scan without the else clause: an exhausted list falls through to the
\* read.
RECURSIVE scan_windows_no_else(_, _)
scan_windows_no_else(ws, i) ==
    IF i > Len(ws) THEN "read"
    ELSE IF ~hasattr(ws[i], "THREAD") THEN "AttributeError"
    ELSE IF exception(threads[getattr(ws[i], "THREAD")]) # NoExc THEN "failure"
    ELSE IF ~hasattr(ws[i], "RUNNING") THEN "AttributeError"
    ELSE IF getattr(ws[i], "RUNNING") /\ getattr(ws[i], "WAIT") THEN "read"
    ELSE scan_windows_no_else(ws, i + 1)

\* A scan that goes on for any running window, waiting for input or not.
RECURSIVE scan_windows_running_only(_, _)
scan_windows_running_only(ws, i) ==
    IF i > Len(ws) THEN "nobody"
    ELSE IF ~hasattr(ws[i], "THREAD") THEN "AttributeError"
    ELSE IF exception(threads[getattr(ws[i], "THREAD")]) # NoExc THEN "failure"
    ELSE IF ~hasattr(ws[i], "RUNNING") THEN "AttributeError"
    ELSE IF getattr(ws[i], "RUNNING") THEN "read"
    ELSE scan_windows_running_only(ws, i + 1)

\* A scan that goes on for any window that waits for input, running or not.
RECURSIVE scan_windows_any_waiting(_, _)
scan_windows_any_waiting(ws, i) ==
    IF i > Len(ws) THEN "nobody"
    ELSE IF ~hasattr(ws[i], "THREAD") THEN "AttributeError"
    ELSE IF exception(threads[getattr(ws[i], "THREAD")]) # NoExc THEN "failure"
    ELSE IF ~hasattr(ws[i], "RUNNING") THEN "AttributeError"
    ELSE IF getattr(ws[i], "WAIT") THEN "read"
    ELSE scan_windows_any_waiting(ws, i + 1)

\* The for loop of _input_loop (lines 119-129) from position i of the list
\* ws: "failure" when it leaves through line 124, "read" through line 126,
\* "nobody" through the else clause, "AttributeError" when a window has no
\* task handle or no running state to read.
RECURSIVE scan_windows(_, _)
scan_windows(ws, i) ==
    IF i > Len(ws) THEN "nobody"
    ELSE IF ~hasattr(ws[i], "THREAD") THEN "AttributeError"
    ELSE IF exception(threads[getattr(ws[i], "THREAD")]) # NoExc THEN "failure"
    ELSE IF ~hasattr(ws[i], "RUNNING") THEN "AttributeError"
    ELSE IF getattr(ws[i], "RUNNING") /\ getattr(ws[i], "WAIT") THEN "read"
    ELSE scan_windows(ws, i + 1)

\* Lines 121-122: cw.RUNNING = False for every window of ws.
RECURSIVE stop_windows(_, _, _)
stop_windows(cs, ws, i) ==
    IF i > Len(ws) THEN cs
    ELSE stop_windows(setattr(cs, ws[i], "RUNNING", FALSE), ws, i + 1)

\* A broadcast to the windows that wait for input only.
RECURSIVE broadcast_to_waiting(_, _, _, _)
broadcast_to_waiting(qs, ws, i, c) ==
    IF i > Len(ws) THEN qs
    ELSE broadcast_to_waiting(
            IF getattr(ws[i], "WAIT")
            THEN [qs EXCEPT ![getattr(ws[i], "KEY_EVENTS")] = Queue_put(@, c)]
            ELSE qs,
            ws, i + 1, c)

\* Lines 134-135: cw.KEY_EVENTS.put(c) for every window of ws, on the Queue
\* objects qs.
RECURSIVE broadcast(_, _, _, _)
broadcast(qs, ws, i, c) ==
    IF i > Len(ws) THEN qs
    ELSE broadcast([qs EXCEPT ![getattr(ws[i], "KEY_EVENTS")] = Queue_put(@, c)],
                   ws, i + 1, c)

\* An inspection that keeps the first failure it finds.
RECURSIVE inspect_threads_first(_, _, _)
inspect_threads_first(ths, i, res) ==
    IF i > Len(ths) THEN res
    ELSE inspect_threads_first(ths, i + 1,
            IF bool(exception(ths[i])) /\ ~bool(res.exc)
            THEN extract_thread_exception(res, ths[i]) ELSE res)

\* Lines 157-159: the Result after the handles ths[i..] were inspected.
RECURSIVE inspect_threads(_, _, _)
inspect_threads(ths, i, res) ==
    IF i > Len(ths) THEN res
    ELSE inspect_threads(ths, i + 1,
            IF bool(exception(ths[i]))
            THEN extract_thread_exception(res, ths[i]) ELSE res)

\* An inspection of the newest handle only.
inspect_handles_newest(ths) == IF ths = <<>> THEN <<>> ELSE <<ths[Len(ths)]>>

\* Line 157: the handles the inspection goes through, all of self.threads.
inspect_handles(ths) == ths

\* An inspection that calls _extract_thread_exception once, for the last
\* failed handle.
RECURSIVE inspect_writes_last_only(_, _)
inspect_writes_last_only(ths, i) ==
    IF i > Len(ths) THEN <<>>
    ELSE IF bool(exception(ths[i])) /\ inspect_writes_last_only(ths, i + 1) = <<>>
         THEN <<ths[i].exc_info>>
         ELSE inspect_writes_last_only(ths, i + 1)

\* Lines 157-159: the calls of _extract_thread_exception the loop makes over
\* the handles ths[i..], as the triples they write, in order.
RECURSIVE inspect_writes(_, _)
inspect_writes(ths, i) ==
    IF i > Len(ths) THEN <<>>
    ELSE (IF bool(exception(ths[i])) THEN <<ths[i].exc_info>> ELSE <<>>)
         \o inspect_writes(ths, i + 1)

\* Handlers without the KeyboardInterrupt clause.
caught_exception_only(kind) == IsException(kind)

\* Lines 160 and 162: the except clauses catch KeyboardInterrupt and
\* whatever derives from Exception.
caught(kind) == kind = "KeyboardInterrupt" \/ IsException(kind)

\* The terminal before initscr() and after endwin().
ShellMode ==
    [curses |-> FALSE, echo |-> TRUE, cbreak |-> FALSE, keypad |-> FALSE,
     color |-> FALSE, nodelay |-> FALSE]

\* A cleanup without echo().
restore_terminal_no_echo(t) ==
    [t EXCEPT !.keypad = FALSE, !.cbreak = FALSE, !.curses = FALSE]

\* Lines 166-169: scr.keypad(0), echo(), nocbreak(), endwin().  keypad()
\* switches the terminal's keypad mode whichever window it is called on.
restore_terminal(t) ==
    [t EXCEPT !.keypad = FALSE, !.echo = TRUE, !.cbreak = FALSE,
              !.curses = FALSE]

\* Line 165: the guard of the cleanup.
must_restore(s) == s # None

(***************************************************************************)
(* Exceptions the environment raises.                                      *)
(***************************************************************************)
\* Raised by a curses call, the sizing resolution or a spawn, or delivered
\* as a signal while the controller sets up.
SetupExcs == {Exc("error", "setupterm"), Exc("KeyboardInterrupt", "")}

\* Raised inside a window task and kept on its handle.
TaskExcs == {Exc("ValueError", "bad key")}

\* Raised inside a greenlet and passed on by the hub to the main greenlet:
\* Ctrl-C, and sys.exit() called by a window.
SystemExcs == {Exc("KeyboardInterrupt", ""), Exc("SystemExit", "0")}

(***************************************************************************)
(* The state after the modules are imported and CursedApp() was built      *)
(* (lines 98-106); no window class is declared yet.                        *)
(***************************************************************************)
Init ==
    /\ classes = <<>>
    /\ queues = <<>>
    /\ WINDOWS = <<>>
    /\ scr = None
    /\ window = None
    /\ threads = <<>>
    /\ windows = NoWindows
    /\ running = TRUE
    /\ result = Result_init
    /\ pc = "host"
    /\ exc_info = NoExcInfo
    /\ term = ShellMode
    /\ runs = 0
    /\ getch_log = <<>>
    /\ raised = [called |-> FALSE, info |-> NoExcInfo]
    /\ captured = <<>>

\* The host program has control: run() is not on the stack.
HostStates == {"host", "returned", "raised"}

appVars == <<scr, window, threads, windows, running>>
ioVars == <<term, getch_log>>

(***************************************************************************)
(* The host program.                                                       *)
(***************************************************************************)
\* A class statement whose metaclass is CursedWindowClass (meta.py 23-43).
Declare(name, parent, dct) ==
    /\ pc \in HostStates
    /\ Len(classes) < MaxDecls
    /\ classes' = Append(classes, new_class(name, parent, dct, Len(queues)))
    /\ queues' = queues_after(queues, name)
    /\ WINDOWS' = registry_after(WINDOWS, name, Len(classes) + 1)
    /\ UNCHANGED <<appVars, result, pc, exc_info, term, runs, getch_log, raised, captured>>

\* result.unwrap() on the Result run() returned (lines 32-37).
host_unwrap ==
    /\ pc = "returned"
    /\ result' = unwrap(result).self
    /\ raised' = [called |-> TRUE, info |-> unwrap(result).raises]
    /\ UNCHANGED <<classes, queues, WINDOWS, appVars, pc, exc_info, ioVars, runs,
                   captured>>

(***************************************************************************)
(* run() (lines 137-170), cut where it can raise and where it blocks.      *)
(***************************************************************************)
\* An exception leaves the try block at `site`.
Raise(e, site) ==
    /\ exc_info' = ExcInfoOf(e, Tb("run", site, 0))
    /\ pc' = "except"

\* Line 143: the host calls run().
enter_run ==
    /\ pc \in HostStates
    /\ runs' = runs + 1
    /\ result' = Result_init
    /\ raised' = [called |-> FALSE, info |-> NoExcInfo]
    /\ captured' = <<>>
    /\ exc_info' = NoExcInfo
    /\ pc' = "initscr"
    /\ UNCHANGED <<classes, queues, WINDOWS, appVars, ioVars>>

\* The first run() of the controller.
run_first == runs = 0 /\ enter_run

\* A later run() of the same controller.
run_again == runs >= 1 /\ runs < MaxRuns /\ enter_run

\* Lines 145-146: initscr() and getmaxyx().
run_initscr ==
    /\ pc = "initscr"
    /\ \/ /\ scr' = "stdscr"
          /\ term' = [term EXCEPT !.curses = TRUE]
          /\ pc' = "noecho"
          /\ UNCHANGED exc_info
       \/ /\ \E e \in SetupExcs : Raise(e, "initscr")
          /\ UNCHANGED <<scr, term>>
    /\ UNCHANGED <<classes, queues, WINDOWS, window, threads, windows, running, result,
                   runs, getch_log, raised, captured>>

\* Line 147.
run_noecho ==
    /\ pc = "noecho"
    /\ \/ /\ term' = [term EXCEPT !.echo = FALSE]
          /\ pc' = "cbreak"
          /\ UNCHANGED exc_info
       \/ /\ \E e \in SetupExcs : Raise(e, "noecho")
          /\ UNCHANGED term
    /\ UNCHANGED <<classes, queues, WINDOWS, appVars, result, runs, getch_log, raised, captured>>

\* Line 148.
run_cbreak ==
    /\ pc = "cbreak"
    /\ \/ /\ term' = [term EXCEPT !.cbreak = TRUE]
          /\ pc' = "color"
          /\ UNCHANGED exc_info
       \/ /\ \E e \in SetupExcs : Raise(e, "cbreak")
          /\ UNCHANGED term
    /\ UNCHANGED <<classes, queues, WINDOWS, appVars, result, runs, getch_log, raised, captured>>

\* Lines 149-150: start_color() and use_default_colors().
run_color ==
    /\ pc = "color"
    /\ \/ /\ term' = [term EXCEPT !.color = TRUE]
          /\ pc' = "subwin"
          /\ UNCHANGED exc_info
       \/ /\ \E e \in SetupExcs : Raise(e, "start_color")
          /\ UNCHANGED term
    /\ UNCHANGED <<classes, queues, WINDOWS, appVars, result, runs, getch_log, raised, captured>>

\* Lines 151-153: the root sub-window, keypad(1) and nodelay(1).
run_subwin ==
    /\ pc = "subwin"
    /\ \/ /\ window' = "subwin"
          /\ term' = [term EXCEPT !.keypad = TRUE, !.nodelay = TRUE]
          /\ pc' = "run_windows"
          /\ UNCHANGED exc_info
       \/ /\ \E e \in SetupExcs : Raise(e, "subwin")
          /\ UNCHANGED <<window, term>>
       \/ /\ window' = "subwin"
          /\ term' = [term EXCEPT !.keypad = TRUE]
          /\ \E e \in SetupExcs : Raise(e, "nodelay")
    /\ UNCHANGED <<classes, queues, WINDOWS, scr, threads, windows, running, result,
                   runs, getch_log, raised, captured>>

\* The running state of a window when its task is spawned.
cw_spawned(cs, c) == setattr(cs, c, "RUNNING", TRUE)

\* Lines 112-115: one greenlet per window of ws, in the order of ws, its
\* handle kept in cw.THREAD and appended to self.threads.
RECURSIVE spawn_windows(_, _, _)
spawn_windows(st, ws, i) ==
    IF i > Len(ws) THEN st
    ELSE spawn_windows(
            [classes |-> setattr(cw_spawned(st.classes, ws[i]), ws[i],
                                 "THREAD", Len(st.threads) + 1),
             threads |-> Append(st.threads, Greenlet("cw_run", ws[i]))],
            ws, i + 1)

\* Line 154: _run_windows() (lines 108-115).
run_windows ==
    /\ pc = "run_windows"
    /\ \/ /\ windows' = bind_windows(WINDOWS)
          /\ LET st == spawn_windows([classes |-> classes, threads |-> threads],
                                     WINDOWS, 1)
             IN  /\ classes' = st.classes
                 /\ threads' = st.threads
          /\ pc' = "spawn_input"
          /\ UNCHANGED exc_info
       \/ /\ \E e \in SetupExcs : Raise(e, "fix_windows")
          /\ UNCHANGED <<classes, threads, windows>>
    /\ UNCHANGED <<queues, WINDOWS, scr, window, running, result, ioVars, runs,
                   raised, captured>>

\* Line 155.
run_spawn_input ==
    /\ pc = "spawn_input"
    /\ \/ /\ threads' = Append(threads, Greenlet("input_loop", 0))
          /\ pc' = "join"
          /\ UNCHANGED exc_info
       \/ /\ \E e \in SetupExcs : Raise(e, "spawn")
          /\ UNCHANGED threads
    /\ UNCHANGED <<classes, queues, WINDOWS, scr, window, windows, running, result,
                   ioVars, runs, raised, captured>>

\* Line 156: joinall returns once every handle of self.threads is dead.
run_joined ==
    /\ pc = "join"
    /\ \A t \in DOMAIN threads : dead(threads[t])
    /\ pc' = "inspect"
    /\ UNCHANGED <<classes, queues, WINDOWS, appVars, result, exc_info, ioVars, runs,
                   raised, captured>>

\* Lines 157-159.
run_inspect ==
    /\ pc = "inspect"
    /\ result' = inspect_threads(inspect_handles(threads), 1, result)
    /\ captured' = captured \o inspect_writes(inspect_handles(threads), 1)
    /\ pc' = "finally"
    /\ UNCHANGED <<classes, queues, WINDOWS, appVars, exc_info, ioVars, runs,
                   raised>>

\* Lines 160-163: the exception in flight is caught, or stays in flight.
run_except ==
    /\ pc = "except"
    /\ IF caught(exc_info.type)
       THEN /\ result' = extract_exception(result, exc_info)
            /\ captured' = Append(captured, exc_info)
            /\ exc_info' = NoExcInfo
       ELSE UNCHANGED <<result, exc_info, captured>>
    /\ pc' = "finally"
    /\ UNCHANGED <<classes, queues, WINDOWS, appVars, ioVars, runs, raised>>

\* Lines 164-169.
run_finally ==
    /\ pc = "finally"
    /\ term' = IF must_restore(scr) THEN restore_terminal(term) ELSE term
    /\ pc' = "return"
    /\ UNCHANGED <<classes, queues, WINDOWS, appVars, result, exc_info, getch_log,
                   runs, raised, captured>>

\* Line 170, unless an exception is still in flight: then run() ends by
\* raising it.
run_return ==
    /\ pc = "return"
    /\ pc' = IF exc_info = NoExcInfo THEN "returned" ELSE "raised"
    /\ UNCHANGED <<classes, queues, WINDOWS, appVars, result, exc_info, ioVars, runs,
                   raised, captured>>

(***************************************************************************)
(* The greenlets.  They run while the main greenlet waits in joinall.      *)
(***************************************************************************)
Alive(t, target) ==
    /\ pc = "join"
    /\ t \in DOMAIN threads
    /\ threads[t].target = target
    /\ ~dead(threads[t])

\* _input_loop, from the test of the while loop to gevent.sleep(0) or to
\* the end of the loop (lines 118-130).
input_scan(t) ==
    /\ Alive(t, "input_loop")
    /\ threads[t].state \in {"spawned", "resumed"}
    /\ OthersYielded(t)
    /\ IF ~while_test(running)
       THEN /\ threads' = [threads EXCEPT ![t].state = "dead"]
            /\ UNCHANGED <<classes, running>>
       ELSE LET how == scan_windows(the_windows, 1)
            IN  CASE how = "failure" ->
                       /\ classes' = stop_windows(classes, the_windows, 1)
                       /\ running' = FALSE
                       /\ threads' = [threads EXCEPT ![t].state = "sleeping",
                                                     ![t].branch = how]
                  [] how = "read" ->
                       /\ threads' = [threads EXCEPT ![t].state = "sleeping",
                                                     ![t].branch = how]
                       /\ UNCHANGED <<classes, running>>
                  [] how = "nobody" ->
                       /\ running' = FALSE
                       /\ threads' = [threads EXCEPT ![t].state = "dead",
                                                     ![t].branch = how]
                       /\ UNCHANGED classes
                  [] OTHER ->
                       /\ threads' = [threads EXCEPT
                              ![t] = [failed_with(@, Exc("AttributeError", how))
                                         EXCEPT !.branch = how]]
                       /\ UNCHANGED <<classes, running>>
    /\ UNCHANGED <<queues, WINDOWS, scr, window, windows, result, pc, exc_info,
                   ioVars, runs, raised, captured>>

\* _input_loop, from the return of gevent.sleep(0) to the end of the
\* iteration (lines 131-135): getch() returns c.  A put that had to wait
\* for room in a queue would keep the iteration from ending.
input_read(t, c) ==
    /\ Alive(t, "input_loop")
    /\ threads[t].state = "sleeping"
    /\ AllYielded
    /\ threads' = [threads EXCEPT ![t].state = "resumed"]
    /\ IF c = ERR
       THEN UNCHANGED <<queues, getch_log>>
       ELSE /\ Len(getch_log) < MaxReads
            /\ \A i \in DOMAIN the_windows :
                  ~Queue_full(queues[getattr(the_windows[i], "KEY_EVENTS")])
            /\ getch_log' = Append(getch_log, c)
            /\ queues' = broadcast(queues, the_windows, 1, c)
    /\ UNCHANGED <<classes, WINDOWS, scr, window, windows, running, result, pc, exc_info,
                   term, runs, raised, captured>>

\* A window task takes the next key code from its class's queue.
cw_run_get(t) ==
    /\ Alive(t, "cw_run")
    /\ AllYielded
    /\ ~Queue_empty(queues[getattr(threads[t].cw, "KEY_EVENTS")])
    /\ queues' = [queues EXCEPT
                     ![getattr(threads[t].cw, "KEY_EVENTS")] = Queue_get(@)]
    /\ UNCHANGED <<classes, WINDOWS, appVars, result, pc, exc_info, ioVars, runs, raised, captured>>

\* A class statement that derives a window class from the registered
\* window class `parent` (meta.py 23-43).
DeclareDerived(parent, dct) ==
    /\ parent \in DOMAIN classes
    /\ classes[parent].name \notin BASE_CURSED_CLASSES
    /\ Declare("SubWindow", parent, dct)

\* A window task executes a class statement whose metaclass is
\* CursedWindowClass (meta.py 23-43) while run() waits in joinall.
DeclareLate(name, dct) ==
    /\ AllYielded
    /\ \E t \in DOMAIN threads : Alive(t, "cw_run")
    /\ Len(classes) < MaxDecls
    /\ classes' = Append(classes, new_class(name, 0, dct, Len(queues)))
    /\ queues' = queues_after(queues, name)
    /\ WINDOWS' = registry_after(WINDOWS, name, Len(classes) + 1)
    /\ UNCHANGED <<appVars, result, pc, exc_info, term, runs, getch_log, raised,
                   captured>>

\* A window task ends normally: its class is no longer running.
cw_run_return(t) ==
    /\ Alive(t, "cw_run")
    /\ AllYielded
    /\ classes' = setattr(classes, threads[t].cw, "RUNNING", FALSE)
    /\ threads' = [threads EXCEPT ![t].state = "dead"]
    /\ UNCHANGED <<queues, WINDOWS, scr, window, windows, running, result, pc, exc_info,
                   ioVars, runs, raised, captured>>

\* A window task ends with an exception, which its handle keeps.
cw_run_raise(t, e) ==
    /\ Alive(t, "cw_run")
    /\ AllYielded
    /\ threads' = [threads EXCEPT ![t] = failed_with(@, e)]
    /\ UNCHANGED <<classes, queues, WINDOWS, scr, window, windows, running, result, pc,
                   exc_info, ioVars, runs, raised, captured>>

\* A greenlet ends with KeyboardInterrupt or SystemExit: its handle keeps
\* the exception and the hub raises it in the main greenlet, inside
\* joinall (line 156).
system_error(t, e) ==
    /\ pc = "join"
    /\ t \in DOMAIN threads
    /\ ~dead(threads[t])
    /\ OthersYielded(t)
    /\ threads[t].target = "input_loop" => e.kind = "KeyboardInterrupt"
    /\ threads' = [threads EXCEPT ![t] = failed_with(@, e)]
    /\ Raise(e, "joinall")
    /\ UNCHANGED <<classes, queues, WINDOWS, scr, window, windows, running, result,
                   ioVars, runs, raised, captured>>

Next ==
    \/ \E name \in ClassNames, d \in DOMAIN Dcts :
          Declare(name, 0, Dcts[d])
    \/ host_unwrap
    \/ run_first
    \/ run_initscr
    \/ run_noecho
    \/ run_cbreak
    \/ run_color
    \/ run_subwin
    \/ run_windows
    \/ run_spawn_input
    \/ run_joined
    \/ run_inspect
    \/ run_except
    \/ run_finally
    \/ run_return
    \/ \E t \in DOMAIN threads : input_scan(t)
    \/ \E t \in DOMAIN threads, c \in KeyCodes \cup {ERR} : input_read(t, c)
    \/ \E t \in DOMAIN threads : cw_run_return(t)
    \/ \E t \in DOMAIN threads, e \in TaskExcs : cw_run_raise(t, e)
    \/ \E t \in DOMAIN threads, e \in SystemExcs : system_error(t, e)

\* One run() of a controller, among declarations; no window task takes a
\* key code from its queue.
Spec == Init /\ [][Next]_vars

\* As Spec, under the scheduling of gevent: a greenlet that is ready to run
\* is run in its turn, and the main greenlet goes on when joinall can
\* return.  Nothing makes the host call run() or a window task end.
Fairness ==
    /\ \A t \in 1..(MaxDecls + 1) : WF_vars(input_scan(t))
    /\ \A t \in 1..(MaxDecls + 1) : WF_vars(input_read(t, ERR))
    /\ WF_vars(run_joined)
    /\ WF_vars(run_inspect)
    /\ WF_vars(run_finally)
    /\ WF_vars(run_return)
SpecLive == Init /\ [][Next]_vars /\ Fairness

\* As Spec, with window tasks that declare window classes during the run.
NextLate ==
    \/ Next
    \/ \E name \in ClassNames, d \in DOMAIN Dcts : DeclareLate(name, Dcts[d])
SpecLate == Init /\ [][NextLate]_vars

\* As Spec, with window classes derived from registered window classes.
NextDerive ==
    \/ Next
    \/ \E parent \in 1..MaxDecls, d \in DOMAIN Dcts : DeclareDerived(parent, Dcts[d])
SpecDerive == Init /\ [][NextDerive]_vars

\* With window tasks that take key codes from their queues.
NextDrain == Next \/ \E t \in DOMAIN threads : cw_run_get(t)
SpecDrain == Init /\ [][NextDrain]_vars

\* As Spec, with later runs of the same controller.
NextRerun == Next \/ run_again
SpecRerun == Init /\ [][NextRerun]_vars

(***************************************************************************)
(* What the claims speak of.                                               *)
(***************************************************************************)
\* The terminal is out of curses mode: keypad mode off, echo on, cbreak
\* off, session ended.
Restored(t) == ~t.keypad /\ t.echo /\ ~t.cbreak /\ ~t.curses

\* The windows of self.windows and their flags.
Wins == {the_windows[i] : i \in DOMAIN the_windows}
RUNNING(w) == getattr(w, "RUNNING")
WAIT(w) == getattr(w, "WAIT")
KEY_EVENTS(w) == queues[getattr(w, "KEY_EVENTS")]

\* The task of window w has a recorded failure.
WindowFailed(w) ==
    hasattr(w, "THREAD") /\ exception(threads[getattr(w, "THREAD")]) # NoExc
FailedWindows == {w \in Wins : WindowFailed(w)}

\* The handles of the input-dispatch tasks.
InputTasks == {t \in DOMAIN threads : threads[t].target = "input_loop"}

\* The handles with a recorded failure.
Failed == {t \in DOMAIN threads : exception(threads[t]) # NoExc}

Last(S) == CHOOSE t \in S : \A u \in S : u <= t

(***************************************************************************)
(* C1.  Whenever run() has ended, by returning its Result or by letting an *)
(* exception it does not catch through, the terminal is restored: keypad   *)
(* mode off, echo on, cbreak off, session ended.  This covers normal       *)
(* completion, a window-task failure, an exception during setup after      *)
(* initscr() and an interrupt while joining.                               *)
(***************************************************************************)
C1_TerminalRestored == pc \in {"returned", "raised"} => Restored(term)

\* run() returned a failure after the whole setup had been done.
C1_Witness ==
    /\ pc = "returned"
    /\ scr = "stdscr"
    /\ term.nodelay
    /\ ~ok(result)

(***************************************************************************)
(* C2.  Whenever the input-dispatch loop scans the windows while exactly   *)
(* one window task has a recorded failure, that pass sets every window's   *)
(* running flag and the controller's running flag to false, wherever the   *)
(* failed window stands in the registry and whatever the flags of the      *)
(* others; and a Result returned after exactly one window task failed has  *)
(* ok() false.                                                             *)
(***************************************************************************)
C2_SingleFailureStopsLoop ==
    /\ [][\A t \in DOMAIN threads :
            (input_scan(t) /\ running /\ Cardinality(FailedWindows) = 1)
            => /\ ~running'
               /\ \A w \in Wins : ~classes'[w].attrs.RUNNING]_vars
    /\ [](pc = "returned" /\ Cardinality(FailedWindows) = 1 => ~ok(result))

(***************************************************************************)
(* C3.  While run() joins and inspects, self.threads holds the window      *)
(* tasks in registry order and then the input-dispatch task; the           *)
(* inspection that follows a join leaves in the Result the failure record  *)
(* (type, exception, traceback) of the failed handle that comes last in    *)
(* that order, whatever failed before it, and leaves the Result empty,     *)
(* with ok() true, exactly when no handle has a failure.                   *)
(***************************************************************************)
C3_LastFailureKept ==
    /\ [][run_inspect =>
            IF Failed = {}
            THEN result' = Result_init /\ ok(result')
            ELSE /\ result' = [exc_type |-> threads[Last(Failed)].exc_info.type,
                               exc |-> threads[Last(Failed)].exc_info.value,
                               tb |-> threads[Last(Failed)].exc_info.tb]
                 /\ ~ok(result')]_vars
    /\ [](pc \in {"join", "inspect"} /\ runs = 1 =>
            /\ Len(threads) = Len(WINDOWS) + 1
            /\ \A i \in DOMAIN WINDOWS :
                  threads[i].target = "cw_run" /\ threads[i].cw = WINDOWS[i]
            /\ threads[Len(threads)].target = "input_loop")

\* Two window tasks failed and run() returned the record of the later one.
C3_Witness ==
    /\ pc = "returned"
    /\ Cardinality(Failed) = 2
    /\ result.tb = threads[Last(Failed)].exc_info.tb
    /\ result.tb.func = "cw_run"

(***************************************************************************)
(* C4.  The items ever put into the key-events queue of each window of the *)
(* run are exactly the key codes getch() returned, the -1 sentinel left    *)
(* out, in the order they were read: each code once per window, the same   *)
(* sequence for all windows; a read of the sentinel puts nothing.  A class  *)
(* that is no window of the run got nothing.                               *)
(***************************************************************************)
C4_BroadcastInOrder ==
    \A c \in DOMAIN classes :
        hasattr(c, "KEY_EVENTS") =>
            KEY_EVENTS(c).items =
                IF hasattr(c, "THREAD") THEN getch_log ELSE <<>>

\* Two different key codes were read and reached both windows, one of
\* which does not want input.
C4_Witness ==
    /\ Len(getch_log) = 2
    /\ getch_log[1] # getch_log[2]
    /\ Len(WINDOWS) = 2
    /\ \A w \in Wins : KEY_EVENTS(w).items = getch_log
    /\ \E w \in Wins : ~WAIT(w)

(***************************************************************************)
(* C5.  In a run with no window the input-dispatch task, once it runs,     *)
(* leaves through the else clause of its first scan: it sets the           *)
(* controller's running flag to false and ends without a failure and       *)
(* without a call of getch(); run() can always go on until it returns,     *)
(* and the Result it returns then has ok() true.                           *)
(***************************************************************************)
C5_NoWindowRun ==
    (Len(threads) >= 1 /\ threads[1].target = "input_loop") =>
        /\ getch_log = <<>>
        /\ threads[1].state \in {"spawned", "dead"}
        /\ threads[1].branch \in {"none", "nobody"}
        /\ threads[1].branch = "nobody" =>
              ~running /\ dead(threads[1]) /\ exception(threads[1]) = NoExc
        /\ pc = "join" =>
              IF dead(threads[1]) THEN ENABLED run_joined
              ELSE ENABLED input_scan(1)
        /\ (pc = "returned" /\ threads[1].branch = "nobody") => ok(result)

\* run() returned from a run without windows.
C5_Witness ==
    /\ pc = "returned"
    /\ Len(threads) = 1
    /\ threads[1].branch = "nobody"
    /\ ok(result)
    /\ repr(result) = <<"Result(OKAY)">>

(***************************************************************************)
(* C6.  A scan of the input-dispatch loop that finds no window task with a *)
(* recorded failure goes on to gevent.sleep(0) and getch(), leaving the    *)
(* controller's running flag true, if and only if some window is both      *)
(* running and waiting for input, wherever it stands in the registry;      *)
(* otherwise it sets the running flag to false and ends the loop with no   *)
(* further read.                                                           *)
(***************************************************************************)
C6_ReadIffSomeoneListens ==
    [][\A t \in DOMAIN threads :
          (input_scan(t) /\ running /\ FailedWindows = {})
          => IF \E w \in Wins : RUNNING(w) /\ WAIT(w)
             THEN running' /\ threads'[t].state = "sleeping"
             ELSE /\ ~running'
                  /\ dead(threads'[t])
                  /\ getch_log' = getch_log]_vars

\* The loop goes on for the second window alone: the first is not running.
C6_Witness ==
    /\ Len(the_windows) = 2
    /\ FailedWindows = {}
    /\ ~RUNNING(the_windows[1])
    /\ RUNNING(the_windows[2]) /\ WAIT(the_windows[2])
    /\ \E t \in InputTasks :
          threads[t].state = "sleeping" /\ threads[t].branch = "read"

(***************************************************************************)
(* C7.  Original statement: whatever exception leaves the try block of     *)
(* run() is captured into the Result, so that run() never ends by raising  *)
(* and the Result has ok() false, with interrupted() true exactly for a    *)
(* KeyboardInterrupt.                                                      *)
(***************************************************************************)
C7_EveryExceptionCaptured ==
    /\ pc # "raised"
    /\ pc \in {"finally", "return", "returned"} => exc_info = NoExcInfo
    /\ (pc = "returned" /\ result.tb.func = "run") =>
          /\ ~ok(result)
          /\ interrupted(result) <=> result.exc.kind = "KeyboardInterrupt"

(***************************************************************************)
(* C7, amended.  An exception that leaves the try block of run() and is a  *)
(* KeyboardInterrupt or derives from Exception is captured into the        *)
(* Result with its type, value and traceback, and run() returns normally   *)
(* with ok() false and interrupted() true exactly for a KeyboardInterrupt. *)
(* Any other exception (SystemExit) is not captured: run() restores the    *)
(* terminal and ends by raising it.                                        *)
(***************************************************************************)
C7_CaughtKindsCaptured ==
    /\ [][run_except =>
            IF exc_info.type = "KeyboardInterrupt" \/ IsException(exc_info.type)
            THEN /\ result' = [exc_type |-> exc_info.type,
                               exc |-> exc_info.value, tb |-> exc_info.tb]
                 /\ exc_info' = NoExcInfo
            ELSE result' = result /\ exc_info' = exc_info]_vars
    /\ [](pc = "raised" =>
            /\ exc_info.type # "KeyboardInterrupt"
            /\ ~IsException(exc_info.type)
            /\ ok(result)
            /\ Restored(term))
    /\ [](pc = "returned" => exc_info = NoExcInfo)
    /\ []((pc = "returned" /\ result.tb.func = "run") =>
            /\ ~ok(result)
            /\ interrupted(result) <=> result.exc.kind = "KeyboardInterrupt")

\* run() returned a KeyboardInterrupt that reached it inside joinall.
C7_Witness ==
    /\ pc = "returned"
    /\ result.tb = Tb("run", "joinall", 0)
    /\ interrupted(result)
    /\ ~ok(result)

(***************************************************************************)
(* C8.  The queries of the Result agree in every state: ok() is true       *)
(* exactly when err() is None and exactly when the text is "Result(OKAY)", *)
(* as for a new Result; interrupted() is true exactly when the captured    *)
(* exception is a KeyboardInterrupt, and then ok() is false and the text   *)
(* is "Result(KeyboardInterrupt)"; for any other captured exception of     *)
(* kind K and message M, err() is that exception and the text is           *)
(* "Result(K, message=M)".                                                 *)
(***************************************************************************)
C8_QueriesAgree ==
    /\ ok(result) <=> err(result) = NoExc
    /\ ok(result) <=> repr(result) = <<"Result(OKAY)">>
    /\ ok(Result_init) /\ ~interrupted(Result_init)
    /\ interrupted(result) <=> result.exc.kind = "KeyboardInterrupt"
    /\ interrupted(result) =>
          ~ok(result) /\ repr(result) = <<"Result(KeyboardInterrupt)">>
    /\ (~ok(result) /\ ~interrupted(result)) =>
          /\ err(result) = result.exc
          /\ repr(result) = <<"Result(", result.exc.kind, ", message=",
                              result.exc.msg, ")">>

\* A Result that captured the ValueError of a window task.
C8_Witness ==
    /\ pc = "returned"
    /\ err(result) = Exc("ValueError", "bad key")
    /\ repr(result) = <<"Result(", "ValueError", ", message=", "bad key", ")">>

(***************************************************************************)
(* C9.  unwrap() on a Result that captured an exception raises an          *)
(* exception of the same kind and message, with the captured traceback,    *)
(* and on an empty Result returns normally; no step the host takes after   *)
(* run() returned, unwrap() included, changes the Result, so its queries   *)
(* answer the same afterwards and a repeated unwrap() does the same again. *)
(***************************************************************************)
C9_UnwrapRaisesCaptured ==
    /\ [](raised.called =>
            IF ok(result) THEN raised.info = NoExcInfo
            ELSE /\ raised.info.type = result.exc.kind
                 /\ raised.info.value.kind = result.exc.kind
                 /\ raised.info.value.msg = result.exc.msg
                 /\ raised.info.tb = result.tb)
    /\ [][pc = "returned" /\ pc' = "returned" =>
            /\ result' = result
            /\ ok(result') = ok(result)
            /\ err(result') = err(result)
            /\ interrupted(result') = interrupted(result)
            /\ repr(result') = repr(result)]_vars
    /\ [][(host_unwrap /\ raised.called) => raised' = raised]_vars

\* unwrap() raised the captured error of a window task.
C9_Witness ==
    /\ raised.called
    /\ raised.info.value = Exc("ValueError", "bad key")
    /\ raised.info.tb.func = "cw_run"
    /\ result.exc = Exc("ValueError", "bad key")

(***************************************************************************)
(* C10.  The registry holds the class objects declared under a name that   *)
(* is not a base-class name, each once, in declaration order, and none     *)
(* declared under a base-class name; every step, a declaration or a step   *)
(* of run(), leaves the entries it held in place and at most appends.      *)
(***************************************************************************)
C10_RegistryAppendOnly ==
    /\ [](WINDOWS = SelectSeq([i \in DOMAIN classes |-> i],
                        LAMBDA i : classes[i].name \notin BASE_CURSED_CLASSES))
    /\ [][/\ Len(WINDOWS') >= Len(WINDOWS)
          /\ SubSeq(WINDOWS', 1, Len(WINDOWS)) = WINDOWS]_vars

\* A base-class name was declared before a window, and run() has run.
C10_Witness ==
    /\ pc = "returned"
    /\ Len(classes) = 2
    /\ classes[1].name \in BASE_CURSED_CLASSES
    /\ classes[2].name \notin BASE_CURSED_CLASSES
    /\ WINDOWS = <<2>>

\* The attributes that hold a Queue object, and the (class, attribute)
\* pairs that hold one of their own.
QueueAttrs == {"EVENTS", "RESULTS", "KEY_EVENTS"}
QueueSlots ==
    {s \in (DOMAIN classes) \X QueueAttrs :
        s[2] \in DOMAIN classes[s[1]].attrs}

(***************************************************************************)
(* C11.  A class statement under a name that is not a base-class name      *)
(* leaves a class whose WIDTH, HEIGHT, X, Y, BORDERED, SCROLL, WAIT and    *)
(* MENU are those of the class body where the body gives them and 80, 24,  *)
(* 0, 0, False, False, True and None otherwise, whose WINDOW, APP and      *)
(* _OPENED_MENU are None and whose _KEYMAP is empty, and whose EVENTS,     *)
(* RESULTS and KEY_EVENTS are three new, empty Queue objects; the Queue    *)
(* objects that existed stay as they were.  No Queue object is held by two *)
(* attributes or two classes, so a put into one queue leaves every other   *)
(* queue as it was.                                                        *)
(***************************************************************************)
C11_DeclarationDefaults ==
    /\ [][\A name \in ClassNames \ BASE_CURSED_CLASSES, d \in DOMAIN Dcts :
            Declare(name, 0, Dcts[d]) =>
               LET dct == Dcts[d]
                   a == classes'[Len(classes')].attrs
                   given(k, default) == IF k \in DOMAIN dct THEN dct[k] ELSE default
               IN  /\ a.WIDTH = given("WIDTH", 80)
                   /\ a.HEIGHT = given("HEIGHT", 24)
                   /\ a.X = given("X", 0)
                   /\ a.Y = given("Y", 0)
                   /\ a.BORDERED = given("BORDERED", FALSE)
                   /\ a.SCROLL = given("SCROLL", FALSE)
                   /\ a.WAIT = given("WAIT", TRUE)
                   /\ a.MENU = given("MENU", None)
                   /\ a.WINDOW = None /\ a.APP = None /\ a._OPENED_MENU = None
                   /\ a._KEYMAP = EmptyDct
                   /\ \A q \in QueueAttrs :
                         /\ a[q] \in DOMAIN queues' \ DOMAIN queues
                         /\ queues'[a[q]] = Queue
                   /\ Cardinality({a[q] : q \in QueueAttrs}) = 3
                   /\ \A r \in DOMAIN queues : queues'[r] = queues[r]]_vars
    /\ [](\A s1 \in QueueSlots, s2 \in QueueSlots, c \in KeyCodes :
            s1 # s2 =>
               LET r1 == classes[s1[1]].attrs[s1[2]]
                   r2 == classes[s2[1]].attrs[s2[2]]
               IN  [queues EXCEPT ![r1] = Queue_put(@, c)][r2] = queues[r2])

\* Two windows, one declared with every attribute and one with none, after
\* key codes were put into their key-events queues and nowhere else.
C11_Witness ==
    /\ Len(WINDOWS) = 2
    /\ classes[1].attrs.WIDTH = 40 /\ ~classes[1].attrs.WAIT
    /\ classes[2].attrs.WIDTH = 80 /\ classes[2].attrs.WAIT
    /\ classes[2].attrs.MENU = None
    /\ Len(getch_log) = 2
    /\ \A w \in Wins :
          /\ queues[classes[w].attrs.KEY_EVENTS].items = getch_log
          /\ queues[classes[w].attrs.EVENTS] = Queue
          /\ queues[classes[w].attrs.RESULTS] = Queue

(***************************************************************************)
(* C12.  A pass of the input-dispatch loop whose scan finds a recorded     *)
(* task failure sets every window's running state and the controller's     *)
(* running flag to false and ends the loop there: the task does not go on  *)
(* to gevent.sleep(0), and no getch() and no put into a key-events queue   *)
(* follows a scan that found a failure.                                    *)
(***************************************************************************)
C12_FailureStopsWithoutRead ==
    /\ [][\A t \in DOMAIN threads :
            (input_scan(t) /\ running /\ scan_windows(the_windows, 1) = "failure")
            => /\ ~running'
               /\ \A w \in Wins : ~classes'[w].attrs.RUNNING
               /\ dead(threads'[t])]_vars
    /\ [][\A t \in DOMAIN threads, c \in KeyCodes \cup {ERR} :
            input_read(t, c) => threads[t].branch # "failure"]_vars

(***************************************************************************)
(* C13.  Original statement: between the creation of the Result and the    *)
(* end of run(), at most one capture is applied to it, whatever tasks      *)
(* failed and whatever exception reached the controller.                   *)
(***************************************************************************)
C13_AtMostOneCapture == Len(captured) <= 1

(***************************************************************************)
(* C13, amended.  The inspection after a join applies one capture per      *)
(* failed handle of self.threads, in list order, so that two failed tasks  *)
(* make two captures; an exception caught by run() makes exactly one       *)
(* capture, and an exception run() does not catch makes none.  Inspection  *)
(* and handler never both capture in one run, and the Result is empty when *)
(* nothing was captured and holds the latest capture otherwise.            *)
(***************************************************************************)
C13_OneCapturePerFailedHandle ==
    /\ [][run_inspect =>
            /\ captured = <<>>
            /\ captured' = SelectSeq([t \in DOMAIN threads |-> threads[t].exc_info],
                                     LAMBDA i : i.value # NoExc)
            /\ Len(captured') = Cardinality(Failed)]_vars
    /\ [][run_except =>
            /\ captured = <<>>
            /\ captured' = IF caught(exc_info.type) THEN <<exc_info>> ELSE <<>>]_vars
    /\ [][(~run_inspect /\ ~run_except /\ ~enter_run) => captured' = captured]_vars
    /\ [](result = IF captured = <<>> THEN Result_init
                   ELSE extract_exception(Result_init, captured[Len(captured)]))

\* run() returned after two window tasks failed: the Result was written
\* twice and holds the second failure.
C13_Witness ==
    /\ pc = "returned"
    /\ Len(captured) = 2
    /\ captured[1].tb.cw # captured[2].tb.cw
    /\ result.tb = captured[2].tb

(***************************************************************************)
(* C14.  Original statement: whenever an input-dispatch task has ended,    *)
(* the last scan it made found a recorded task failure or found no window  *)
(* that is both running and waiting for input; no window task, terminal    *)
(* read, signal or earlier run ends it in another way.                     *)
(***************************************************************************)
C14_EndsOnlyByStopTransition ==
    \A t \in InputTasks :
        dead(threads[t]) =>
            /\ threads[t].branch \in {"failure", "nobody"}
            /\ exception(threads[t]) = NoExc

(***************************************************************************)
(* C14, amended.  An input-dispatch task that has ended did so in one of   *)
(* two ways.  Either an exception was raised in it (a KeyboardInterrupt    *)
(* delivered while it ran, or the AttributeError of a window without a     *)
(* task handle).  Or it left the loop by its own step with the             *)
(* controller's running flag false, after a scan of an input-dispatch loop *)
(* of this controller found a failure or found nobody waiting: its own     *)
(* last scan when it is the only input-dispatch task the controller ever   *)
(* spawned, its own or that of the loop of another run otherwise, and then *)
(* possibly without having made a scan itself.                             *)
(***************************************************************************)
C14_WaysTheLoopEnds ==
    /\ [](\A t \in InputTasks :
            dead(threads[t]) =>
               \/ exception(threads[t]).kind \in {"KeyboardInterrupt", "AttributeError"}
               \/ /\ exception(threads[t]) = NoExc
                  /\ ~running
                  /\ \E u \in InputTasks :
                        /\ threads[u].branch \in {"failure", "nobody"}
                        /\ InputTasks = {t} => u = t)
    /\ [][\A t \in InputTasks :
            (~dead(threads[t]) /\ dead(threads'[t]) /\ exception(threads'[t]) = NoExc)
            => input_scan(t)]_vars

\* The input-dispatch task of a second run ended without a scan.
C14_Witness ==
    /\ runs = 2
    /\ pc = "returned"
    /\ \E t \in InputTasks :
          /\ dead(threads[t])
          /\ threads[t].branch = "none"
          /\ exception(threads[t]) = NoExc
          /\ \E u \in InputTasks : u < t /\ threads[u].branch = "nobody"

\* The handles of the window tasks.
WindowTasks == {t \in DOMAIN threads : threads[t].target = "cw_run"}

(***************************************************************************)
(* C15.  In a run in which no task fails and no exception reaches the      *)
(* controller, and in which every window task ends at some time (setting   *)
(* its class's running state to false), the input-dispatch loop comes to a *)
(* scan that finds no window both running and waiting for input, sets the  *)
(* controller's running flag to false and ends; joinall then returns and   *)
(* run() returns a Result with ok() true.                                  *)
(***************************************************************************)
C15_RunReturnsWhenWindowsEnd ==
    ( /\ [](Failed = {} /\ pc # "except")
      /\ [](pc = "join" => <>(\A t \in WindowTasks : dead(threads[t]))) )
    => ( (pc = "join") ~>
            ( /\ pc = "returned"
              /\ ok(result)
              /\ ~running
              /\ \A t \in InputTasks :
                    dead(threads[t]) /\ threads[t].branch = "nobody" ) )

\* run() returned an empty Result after two window tasks ended normally
\* and the loop, having read a key code for them, found nobody waiting.
C15_Witness ==
    /\ pc = "returned"
    /\ ok(result)
    /\ Cardinality(WindowTasks) = 2
    /\ \A t \in WindowTasks : dead(threads[t]) /\ exception(threads[t]) = NoExc
    /\ \A w \in Wins : ~RUNNING(w)
    /\ getch_log # <<>>
    /\ \A t \in InputTasks : threads[t].branch = "nobody"

(***************************************************************************)
(* C16.  Whatever the window tasks have or have not taken from their       *)
(* key-events queues, the input-dispatch loop is never held up by a queue: *)
(* whenever it is back from gevent.sleep(0) it can finish its iteration    *)
(* with any result of getch(), the broadcast included; and every window's  *)
(* queue has received every key code read, in order, however long the      *)
(* backlog of another window is.                                           *)
(***************************************************************************)
C16_BacklogNeverStalls ==
    /\ \A t \in InputTasks :
          (pc = "join" /\ threads[t].state = "sleeping" /\ AllYielded) =>
             /\ ENABLED input_read(t, ERR)
             /\ Len(getch_log) < MaxReads =>
                   \A c \in KeyCodes : ENABLED input_read(t, c)
    /\ \A w \in Wins : hasattr(w, "THREAD") => KEY_EVENTS(w).items = getch_log

\* Two key codes were broadcast; the first window took none of them and
\* the second took both.
C16_Witness ==
    /\ Len(WINDOWS) = 2
    /\ Len(getch_log) = 2
    /\ KEY_EVENTS(WINDOWS[1]).taken = 0
    /\ Len(KEY_EVENTS(WINDOWS[1]).items) = 2
    /\ KEY_EVENTS(WINDOWS[2]).taken = 2
    /\ KEY_EVENTS(WINDOWS[2]).items = getch_log

(***************************************************************************)
(* C17.  self.windows is the registry as it was when _run_windows bound    *)
(* it: a class statement executed while run() waits in joinall leaves the  *)
(* list self.windows denotes as it was, and the class it declares has no   *)
(* part in the run: the scan of the input-dispatch loop never comes upon a *)
(* window without a task handle, and no key code of the run is put into    *)
(* the new class's key-events queue.                                       *)
(***************************************************************************)
C17_WindowListIsSnapshot ==
    /\ [][\A name \in ClassNames, d \in DOMAIN Dcts :
            DeclareLate(name, Dcts[d]) => the_windows' = the_windows]_vars
    /\ [](\A t \in InputTasks : threads[t].branch # "AttributeError")
    /\ [](\A c \in DOMAIN classes :
            (hasattr(c, "KEY_EVENTS") /\ ~hasattr(c, "THREAD")) =>
               /\ pc \notin HostStates => c \notin Wins
               /\ KEY_EVENTS(c).items = <<>>)

(***************************************************************************)
(* C18.  self.running is true once the controller is built and never goes  *)
(* from false to true: the steps of run() itself leave it as it is, and    *)
(* the input-dispatch loop writes nothing but False, to it and to the      *)
(* running state of the windows.  So an input-dispatch task that is        *)
(* spawned when the flag is already false, as in a run() that follows one  *)
(* whose loop has stopped, ends at its first test of the flag: it makes no *)
(* scan, calls no getch() and puts no key code into any queue.             *)
(***************************************************************************)
C18_RunningFlagMonotone ==
    /\ [](runs = 0 => running)
    /\ [][running' => running]_vars
    /\ [][(pc # "join" \/ pc' # "join") => running' = running]_vars
    /\ [][\A t \in InputTasks :
            input_scan(t) =>
               \A c \in DOMAIN classes :
                  ("RUNNING" \in DOMAIN classes'[c].attrs /\ classes'[c].attrs.RUNNING)
                  => ("RUNNING" \in DOMAIN classes[c].attrs /\ classes[c].attrs.RUNNING)]_vars
    /\ [][\A t \in InputTasks :
            (input_scan(t) /\ ~running /\ threads[t].state = "spawned") =>
               /\ dead(threads'[t])
               /\ threads'[t].branch = "none"
               /\ exception(threads'[t]) = NoExc
               /\ UNCHANGED <<classes, queues, getch_log, running>>]_vars
    /\ [](\A t \in InputTasks :
            (~running /\ threads[t].branch = "none") =>
               /\ threads[t].state \in {"spawned", "dead"}
               /\ (pc = "join" /\ threads[t].state = "spawned" /\ AllYielded)
                     => ENABLED input_scan(t))

\* In a second run the input-dispatch task has ended without a scan while
\* a window of that run is still running and waiting for input.
C18_Witness ==
    /\ runs = 2
    /\ pc = "join"
    /\ ~running
    /\ dead(threads[Len(threads)])
    /\ threads[Len(threads)].target = "input_loop"
    /\ threads[Len(threads)].branch = "none"
    /\ \E t \in WindowTasks :
          /\ ~dead(threads[t])
          /\ RUNNING(threads[t].cw) /\ WAIT(threads[t].cw)

\* The window-task handles of earlier runs: the class they were spawned for
\* has been given a newer handle since.
Respawned == {t \in WindowTasks : getattr(threads[t].cw, "THREAD") # t}

(***************************************************************************)
(* C19.  self.threads only grows: no step removes or replaces a handle,    *)
(* _run_windows appends one handle per window of the registry, in order,   *)
(* and run() then appends the handle of the input-dispatch task; nothing   *)
(* else changes the list's length.  A failure recorded on a handle stays   *)
(* on it.  The inspection goes through all of self.threads, those of       *)
(* earlier runs included, so once some handle has failed, every run() of   *)
(* the controller that reaches the inspection ends it with ok() false, and *)
(* a Result returned while a handle has a failure has ok() false.          *)
(***************************************************************************)
C19_HandlesOnlyGrow ==
    /\ [][/\ Len(threads') >= Len(threads)
          /\ \A t \in DOMAIN threads :
                /\ threads'[t].target = threads[t].target
                /\ threads'[t].cw = threads[t].cw
                /\ exception(threads[t]) # NoExc =>
                      threads'[t].exc_info = threads[t].exc_info]_vars
    /\ [][(run_windows /\ pc' = "spawn_input") =>
            /\ Len(threads') = Len(threads) + Len(WINDOWS)
            /\ \A i \in DOMAIN WINDOWS :
                  threads'[Len(threads) + i] = Greenlet("cw_run", WINDOWS[i])]_vars
    /\ [][(run_spawn_input /\ pc' = "join") =>
            threads' = Append(threads, Greenlet("input_loop", 0))]_vars
    /\ [][(Len(threads') # Len(threads)) => (run_windows \/ run_spawn_input)]_vars
    /\ [][run_inspect =>
            /\ result' = inspect_threads(threads, 1, Result_init)
            /\ Failed # {} => ~ok(result') /\ result'.exc = exception(threads[Last(Failed)])]_vars
    /\ [](pc = "returned" /\ Failed # {} => ~ok(result))

\* A second run in which no task failed returned the failure of a window
\* task of the first run.
C19_Witness ==
    /\ runs = 2
    /\ pc = "returned"
    /\ Failed # {}
    /\ Failed \subseteq Respawned
    /\ captured = <<threads[Last(Failed)].exc_info>>
    /\ ~ok(result)
    /\ result.exc = Exc("ValueError", "bad key")

\* The defaults of __new__, by field.
Defaults ==
    [WIDTH |-> 80, HEIGHT |-> 24, X |-> 0, Y |-> 0, BORDERED |-> FALSE,
     SCROLL |-> FALSE, WAIT |-> TRUE, MENU |-> None]

(***************************************************************************)
(* C20.  A class statement that derives a window class from a registered   *)
(* window class leaves a class whose WIDTH, HEIGHT, X, Y, BORDERED,        *)
(* SCROLL, WAIT and MENU are those of its own body where the body gives    *)
(* them and the defaults otherwise, whatever the parent class has; the     *)
(* new class is appended to the registry as an entry of its own, its three *)
(* queues are new, empty Queue objects, none of them a queue of the        *)
(* parent, and the parent class is left as it was.  Reading a field from   *)
(* a derived class always yields the class's own value.                    *)
(***************************************************************************)
C20_DefaultsFromOwnBody ==
    /\ [][\A parent \in DOMAIN classes, d \in DOMAIN Dcts :
            DeclareDerived(parent, Dcts[d]) =>
               LET dct == Dcts[d]
                   c == Len(classes) + 1
                   a == classes'[c].attrs
               IN  /\ \A k \in ConfigFields :
                         a[k] = IF k \in DOMAIN dct THEN dct[k] ELSE Defaults[k]
                   /\ WINDOWS' = Append(WINDOWS, c)
                   /\ \A q \in QueueAttrs :
                         /\ a[q] \in DOMAIN queues' \ DOMAIN queues
                         /\ queues'[a[q]] = Queue
                         /\ \A q2 \in QueueAttrs : a[q] # getattr(parent, q2)
                   /\ Cardinality({a[q] : q \in QueueAttrs}) = 3
                   /\ classes'[parent] = classes[parent]
                   /\ \A r \in DOMAIN queues : queues'[r] = queues[r]]_vars
    /\ [](\A c \in DOMAIN classes :
            classes[c].parent # 0 =>
               \A k \in ConfigFields \cup QueueAttrs :
                  getattr(c, k) = classes[c].attrs[k])

\* A class with an empty body derived from a class that gives every field:
\* it has the defaults, and a key code was put into its own queue.
C20_Witness ==
    /\ Len(classes) = 2
    /\ classes[2].parent = 1
    /\ WINDOWS = <<1, 2>>
    /\ getattr(1, "WIDTH") = 40 /\ ~getattr(1, "WAIT")
    /\ getattr(2, "WIDTH") = 80 /\ getattr(2, "WAIT")
    /\ getattr(2, "MENU") = None
    /\ getattr(2, "KEY_EVENTS") # getattr(1, "KEY_EVENTS")
    /\ Len(getch_log) = 1
    /\ KEY_EVENTS(2).items = getch_log
    /\ queues[getattr(2, "EVENTS")] = Queue

====
